---- MODULE Spec2Model ----
(***************************************************************************)
(* Transaction processing and balance consistency of the fintech backend:  *)
(* accounts/models.py (Account), transactions/models.py (Transaction,      *)
(* TransactionLog), transactions/signals.py (status-change logging),       *)
(* transactions/services.py (TransactionService.process_transaction,       *)
(* RecurringTransactionService), transactions/tasks.py                     *)
(* (update_failed_transactions) and the RecurringTransaction model with    *)
(* its serializers.                                                        *)
(*                                                                         *)
(* Money is counted in whole units of the smallest currency step; Decimal  *)
(* addition and subtraction are exact, so integers model them exactly.     *)
(* The persisted state is acct / txn / logs.  A process_transaction call   *)
(* works on in-memory copies (obj, account) and, inside transaction.atomic,*)
(* on a buffer of uncommitted writes that is applied at commit and         *)
(* discarded at rollback.                                                  *)
(***************************************************************************)
EXTENDS Integers, Sequences, FiniteSets, TLC

\* ---------------------------------------------------------------- bounds
MaxTx == 1          \* transactions created in one behaviour of sequential calls
MaxConcTx == 2      \* transactions created in one behaviour of overlapping calls
MaxCalls == 2       \* process_transaction invocations in one behaviour
MaxFaults == 1      \* injected persistence errors in one behaviour
MaxOps == 1         \* direct Account.debit / credit / admin edits, owner updates
MaxRecTx == 2       \* transactions spawned by recurring definitions in one behaviour

Workers == {"w1", "w2"}
Accounts == {"A1"}

\* Where two accounts are involved: the accounts, their owners (Account.user)
\* and their numbers (Account.account_number, a string as a sequence of
\* characters).  Recipient is the number of the second account.
TriggerAccounts == {"A1", "A2"}
user == [A1 |-> "u1", A2 |-> "u2"]
Recipient == <<"A", "C", "C", "0", "0", "0", "0", "0", "0", "0", "2">>
account_numbers ==
    [A1 |-> <<"A", "C", "C", "0", "0", "0", "0", "0", "0", "0", "1">>, A2 |-> Recipient]
Amounts == {6}
Fees == {0, 1}
\* <<balance, available_balance, status>> of an account at the start
OpeningAccounts == {<<14, 14, "active">>, <<10, 7, "active">>, <<0, 0, "active">>,
                    <<10, 10, "suspended">>}
Statuses == {"active", "suspended"}
ErrTexts == {"connection lost", "temporary outage"}

VARIABLES acct, txn, logs, call, opening, last, ncalls, nfaults, nops, rec, today

vars == <<acct, txn, logs, call, opening, last, ncalls, nfaults, nops, rec, today>>

\* ------------------------------------------------------ accounts/models.py
\* Account.save without the clamp of available_balance.
Account_save_unclamped(a) == a

\* Account.save: available_balance is clamped to balance before the row is written.
Account_save(a) ==
    IF a.available_balance > a.balance
    THEN [a EXCEPT !.available_balance = a.balance]
    ELSE a

\* can_debit with a strict comparison.
can_debit_strict(a, amount) ==
    a.available_balance > amount /\ a.status = "active"

\* can_debit without the check of the account status.
can_debit_any_status(a, amount) ==
    a.available_balance >= amount

can_debit(a, amount) ==
    a.available_balance >= amount /\ a.status = "active"

\* Account.credit that leaves an account alone unless it is active.
credit_active_only(a, amount) ==
    IF a.status = "active"
    THEN Account_save([a EXCEPT !.balance = @ + amount,
                                !.available_balance = @ + amount])
    ELSE a

\* Account.credit: the account after the call (it always saves).
credit(a, amount) ==
    Account_save([a EXCEPT !.balance = @ + amount,
                           !.available_balance = @ + amount])

\* Account.debit: the account after the call and the value returned.
debit(a, amount) ==
    IF can_debit(a, amount)
    THEN [account |-> Account_save([a EXCEPT !.balance = @ - amount,
                                            !.available_balance = @ - amount]),
          saved |-> TRUE, ok |-> TRUE]
    ELSE [account |-> a, saved |-> FALSE, ok |-> FALSE]

\* -------------------------------------------------- transactions/models.py
net_amount(t) ==
    IF t.transaction_type = "debit"
    THEN t.amount + t.fee_amount
    ELSE t.amount - t.fee_amount

\* can_cancel that refuses only a completed transaction.
can_cancel_unless_completed(t) == t.status # "completed"

can_cancel(t) == t.status \in {"pending", "processing"}

\* ------------------------------------------------------------ core/utils.py
\* Decimal("1.00"), the minimum fee, in hundredths of the currency unit.
base_fee == 100

\* fee_rates in hundredths of a percent; any other type takes the default 0.01.
fee_rate(transaction_type) ==
    CASE transaction_type = "transfer" -> 100
      [] transaction_type = "payment" -> 50
      [] transaction_type = "withdrawal" -> 200
      [] OTHER -> 100

\* calculate_transaction_fee, amounts in hundredths of the currency unit.  The
\* product is exact in Decimal; the division here is exact for amounts that are
\* multiples of 2.00, the only ones it is applied to.
calculate_transaction_fee(amount, transaction_type) ==
    LET calculated_fee == (amount * fee_rate(transaction_type)) \div 10000
    IN IF base_fee >= calculated_fee THEN base_fee ELSE calculated_fee

\* A string is a sequence of characters.  str.isdigit holds for the decimal
\* digits and for other characters with the Unicode digit property, such as
\* superscript two.
DecimalDigits == {"0", "1", "2", "3", "4", "5", "6", "7", "8", "9"}
OtherDigits == {"SUPERSCRIPT TWO"}
isdigit(ch) == ch \in DecimalDigits \cup OtherDigits

\* validate_account_number (lines 31-41)
validate_account_number(account_number) ==
    IF account_number = <<>> THEN FALSE
    ELSE IF /\ Len(account_number) >= 3
            /\ SubSeq(account_number, 1, 3) = <<"A", "C", "C">>
            /\ Len(account_number) = 11
         THEN \A i \in 4..11 : isdigit(account_number[i])
         ELSE FALSE

\* ------------------------------------------------------------------- dates
\* A date is <<year, month, day>>; NoDate is a null DateField.
NoDate == <<0, 0, 0>>

\* date.__lt__ / __le__
DateLT(a, b) ==
    \/ a[1] < b[1]
    \/ a[1] = b[1] /\ a[2] < b[2]
    \/ a[1] = b[1] /\ a[2] = b[2] /\ a[3] < b[3]

DateLE(a, b) == a = b \/ DateLT(a, b)

IsLeap(y) == (y % 4 = 0 /\ y % 100 # 0) \/ y % 400 = 0

DaysInMonth(y, m) ==
    IF m = 2 THEN (IF IsLeap(y) THEN 29 ELSE 28)
    ELSE IF m \in {4, 6, 9, 11} THEN 30 ELSE 31

NextDay(d) ==
    IF d[3] < DaysInMonth(d[1], d[2]) THEN <<d[1], d[2], d[3] + 1>>
    ELSE IF d[2] < 12 THEN <<d[1], d[2] + 1, 1>>
    ELSE <<d[1] + 1, 1, 1>>

RECURSIVE timedelta_days(_, _)
\* date + timedelta(days=n)
timedelta_days(d, n) == IF n = 0 THEN d ELSE timedelta_days(NextDay(d), n - 1)

\* relativedelta_months that keeps the day of the month whatever the month
\* reached.
relativedelta_months_keep_day(d, k) ==
    LET total == d[1] * 12 + (d[2] - 1) + k
    IN <<total \div 12, (total % 12) + 1, d[3]>>

\* date + relativedelta(months=k): the month is advanced and the day is cut to
\* the length of the month reached.
relativedelta_months(d, k) ==
    LET total == d[1] * 12 + (d[2] - 1) + k
        y == total \div 12
        m == (total % 12) + 1
        last_day == DaysInMonth(y, m)
    IN <<y, m, IF d[3] > last_day THEN last_day ELSE d[3]>>

\* ------------------------------- transactions/models.py RecurringTransaction
Frequencies == {"daily", "weekly", "monthly", "quarterly", "yearly"}
RecStatuses == {"active", "paused"}

\* calculate_next_execution_date without a branch for monthly.
calculate_next_execution_date_no_monthly(rt) ==
    LET current_date == rt.next_execution_date IN
    CASE rt.frequency = "daily" -> timedelta_days(current_date, 1)
      [] rt.frequency = "weekly" -> timedelta_days(current_date, 7)
      [] rt.frequency = "quarterly" -> relativedelta_months(current_date, 3)
      [] rt.frequency = "yearly" -> relativedelta_months(current_date, 12)
      [] OTHER -> current_date

calculate_next_execution_date(rt) ==
    LET current_date == rt.next_execution_date IN
    CASE rt.frequency = "daily" -> timedelta_days(current_date, 1)
      [] rt.frequency = "weekly" -> timedelta_days(current_date, 7)
      [] rt.frequency = "monthly" -> relativedelta_months(current_date, 1)
      [] rt.frequency = "quarterly" -> relativedelta_months(current_date, 3)
      [] rt.frequency = "yearly" -> relativedelta_months(current_date, 12)
      [] OTHER -> current_date

\* A nullable PositiveIntegerField is <<>> when null and <<n>> when set; Python
\* treats both None and 0 as false.
Truthy(max_executions) == Len(max_executions) = 1 /\ max_executions[1] # 0

\* RecurringTransaction.can_execute when timezone.now().date() is `day`.
can_execute(rt, day) ==
    IF rt.status # "active" THEN FALSE
    ELSE IF DateLT(day, rt.next_execution_date) THEN FALSE
    ELSE IF Truthy(rt.max_executions) /\ rt.execution_count >= rt.max_executions[1]
         THEN FALSE
    ELSE IF rt.end_date # NoDate /\ DateLT(rt.end_date, day) THEN FALSE
    ELSE TRUE

NoRec == [account |-> "", amount |-> 0, category |-> "",
          recipient_account_number |-> <<>>, frequency |-> "", start_date |-> NoDate,
          end_date |-> NoDate, next_execution_date |-> NoDate, status |-> "",
          execution_count |-> 0, max_executions |-> <<>>]

\* ------------------------------------------------- transactions/signals.py
\* A TransactionLog row.  logs[t] holds the rows whose transaction is t, oldest
\* first (the related manager transaction.logs).
Log(prev, new, msg) ==
    [previous_status |-> prev, new_status |-> new, message |-> msg]

\* pre_save receiver: the entries it writes when `old` is the stored row
\* (a sequence of length 0 when the row does not exist yet) and obj is being saved.
log_transaction_status_change(old, obj) ==
    IF Len(old) = 1 /\ old[1].status # obj.status
    THEN <<Log(old[1].status, obj.status, "Status changed")>>
    ELSE <<>>

\* post_save receiver: the entry written when the row was just created.
create_initial_transaction_log(obj, created) ==
    IF created
    THEN <<Log("", obj.status, "Transaction created")>>
    ELSE <<>>

\* ------------------------------------------------------------------ state
NewTransaction(a, type, amount, fee) ==
    [account |-> a, transaction_type |-> type, amount |-> amount, fee_amount |-> fee,
     status |-> "pending", failure_reason |-> "", processed_at |-> "null",
     recipient_account_number |-> <<>>, category |-> ""]

NoAccount == [id |-> "", balance |-> 0, available_balance |-> 0, status |-> ""]
NoObj == [account |-> "", transaction_type |-> "", amount |-> 0, fee_amount |-> 0,
          status |-> "", failure_reason |-> "", processed_at |-> "null",
          recipient_account_number |-> <<>>, category |-> ""]

NoResults == [processed |-> 0, failed |-> 0, total |-> 0]

\* A worker that is not inside any call.
IdleCall ==
    [pc |-> "idle", kind |-> "", t |-> 0, obj |-> NoObj, account |-> NoAccount,
     start_status |-> "", wa |-> <<>>, wt |-> <<>>, wlogs |-> <<>>, err |-> "",
     queue |-> <<>>, retry_count |-> 0, rv |-> "",
     r |-> 0, rt |-> NoRec, results |-> NoResults]

NoLast == [op |-> "", account |-> "", t |-> 0, amount |-> 0, value |-> "",
           type |-> "", fee |-> 0]

\* The state shared by every specification: no call is running, nothing was
\* created yet, the clock shows `day`.
Start(day) ==
    /\ opening = acct
    /\ txn = <<>>
    /\ logs = <<>>
    /\ call = [w \in Workers |-> IdleCall]
    /\ last = NoLast
    /\ ncalls = 0
    /\ nfaults = 0
    /\ nops = 0
    /\ rec = <<>>
    /\ today = day

Quiescent == \A w \in Workers : call[w].pc = "idle"

\* Workers are interchangeable: a call is taken by w1 when it is free.  When
\* calls run one at a time (conc = FALSE) a call starts only when none is running.
MayStart(w, conc) ==
    /\ call[w].pc = "idle"
    /\ w = "w1" \/ call["w1"].pc # "idle"
    /\ conc \/ Quiescent

\* timezone.now().date() during a behaviour.
Today == <<2024, 1, 31>>

Init ==
    /\ \E ob \in [Accounts -> OpeningAccounts] :
          acct = [a \in Accounts |->
                    Account_save([id |-> a, balance |-> ob[a][1],
                                  available_balance |-> ob[a][2], status |-> ob[a][3]])]
    /\ Start(Today)

\* --------------------------------------------- the unit of work (atomic block)
\* What a read of the transaction row inside the unit returns: the worker's own
\* uncommitted write if there is one, the committed row otherwise.
ReadTxn(c) ==
    IF Len(c.wt) = 1 THEN c.wt
    ELSE IF c.t \in DOMAIN txn THEN <<txn[c.t]>> ELSE <<>>

\* A row written inside an atomic block stays locked until the block commits or
\* rolls back: another writer of the same row waits.
TxnLocked(w, t) ==
    \E v \in Workers \ {w} : Len(call[v].wt) = 1 /\ call[v].t = t
AcctLocked(w, a) ==
    \E v \in Workers \ {w} : Len(call[v].wa) = 1 /\ call[v].wa[1].id = a

\* Transaction.save inside the unit: the pre_save receiver compares with the
\* stored row and logs, then the row is written (uncommitted).
Transaction_save(c, obj) ==
    [c EXCEPT !.obj = obj,
              !.wlogs = @ \o log_transaction_status_change(ReadTxn(c), obj),
              !.wt = <<obj>>]

\* Leaving the atomic block normally: the buffered writes become persistent.
CommitTxn(c) == IF Len(c.wt) = 1 THEN [txn EXCEPT ![c.t] = c.wt[1]] ELSE txn
\* CommitAcct of a transfer that also credits the account whose number is the
\* transaction's recipient_account_number.
CommitAcct_credits_recipient(c) ==
    IF Len(c.wa) = 1
    THEN LET own == [acct EXCEPT ![c.wa[1].id] = c.wa[1]]
             to == {a \in DOMAIN acct \cap DOMAIN account_numbers :
                      account_numbers[a] = c.obj.recipient_account_number}
         IN [a \in DOMAIN acct |->
               IF a \in to THEN credit(own[a], c.obj.amount) ELSE own[a]]
    ELSE acct

CommitAcct(c) == IF Len(c.wa) = 1 THEN [acct EXCEPT ![c.wa[1].id] = c.wa[1]] ELSE acct
CommitLogs(c) == IF Len(c.wlogs) > 0 THEN [logs EXCEPT ![c.t] = @ \o c.wlogs] ELSE logs

\* Leaving the atomic block by an exception: the buffered writes are dropped.
Rollback(c) == [c EXCEPT !.wa = <<>>, !.wt = <<>>, !.wlogs = <<>>]

\* The call record once process_transaction has returned `value`.
Return(c, value) ==
    IF c.kind = "task"
    THEN [IdleCall EXCEPT !.pc = "task_loop", !.kind = "task", !.queue = c.queue,
                          !.retry_count = c.retry_count + (IF value = "True" THEN 1 ELSE 0)]
    ELSE IF c.kind \in {"recurring", "scan"}
    THEN [IdleCall EXCEPT !.pc = "rec_update", !.kind = c.kind, !.t = c.t, !.rv = value,
                          !.start_status = c.start_status, !.r = c.r, !.rt = c.rt,
                          !.queue = c.queue, !.results = c.results]
    ELSE [IdleCall EXCEPT !.pc = "return", !.kind = c.kind, !.t = c.t, !.rv = value,
                          !.start_status = c.start_status]

\* The call record once execute_recurring_transaction has returned `value`: the
\* caller of a direct call receives it, a scan counts it and goes on.
AfterExecute(c, value) ==
    IF c.kind = "scan"
    THEN [IdleCall EXCEPT !.pc = "scan_loop", !.kind = "scan", !.queue = c.queue,
                          !.r = c.r, !.t = c.t, !.rv = value,
                          !.results = IF value = "True"
                                      THEN [c.results EXCEPT !.processed = @ + 1]
                                      ELSE [c.results EXCEPT !.failed = @ + 1]]
    ELSE [IdleCall EXCEPT !.pc = "return", !.kind = c.kind, !.r = c.r, !.t = c.t,
                          !.rv = value]

FailMsg(e) == "Transaction failed: " \o e

UnitPcs == {"unit_start", "set_processing", "branch", "log_insufficient",
            "set_completed", "log_completed", "commit"}

Others == <<opening, last, nops, rec, today>>

\* ------------------------------------------------ creation of a transaction
\* Transaction.objects.create (serializers / create_transfer / create_deposit):
\* the row is inserted as pending and the post_save receiver logs the creation.
create_transaction(a, type, amount, fee, limit) ==
    /\ Quiescent
    /\ Len(txn) < limit
    /\ LET id == Len(txn) + 1
           obj == NewTransaction(a, type, amount, fee)
       IN /\ id = Len(txn) + 1
          /\ txn' = Append(txn, obj)
          /\ logs' = Append(logs, log_transaction_status_change(<<>>, obj)
                                   \o create_initial_transaction_log(obj, TRUE))
    /\ UNCHANGED <<acct, call, ncalls, nfaults, Others>>

\* ------------------------------ TransactionService.process_transaction
\* A caller hands a freshly loaded transaction to process_transaction.
\* conc = FALSE: calls run one at a time; conc = TRUE: calls may overlap.
process_call(w, t, conc) ==
    /\ MayStart(w, conc)
    /\ t \in DOMAIN txn
    /\ ncalls < MaxCalls
    /\ call' = [call EXCEPT ![w] = [IdleCall EXCEPT !.pc = "unit_start", !.kind = "call",
                                                    !.t = t, !.obj = txn[t],
                                                    !.start_status = txn[t].status]]
    /\ ncalls' = ncalls + 1
    /\ UNCHANGED <<acct, txn, logs, nfaults, Others>>

\* lines 27-37: enter the atomic block, load the account, log "processing started".
unit_start(w) ==
    LET c == call[w] IN
    /\ c.pc = "unit_start"
    /\ call' = [call EXCEPT ![w] =
                  [c EXCEPT !.pc = "set_processing",
                            !.account = acct[c.obj.account],
                            !.wlogs = @ \o <<Log(c.obj.status, "processing",
                                                 "Transaction processing started")>>]]
    /\ UNCHANGED <<acct, txn, logs, ncalls, nfaults, Others>>

\* lines 39-40
set_processing(w) ==
    LET c == call[w] IN
    /\ c.pc = "set_processing"
    /\ ~ TxnLocked(w, c.t)
    /\ call' = [call EXCEPT ![w] =
                  [Transaction_save(c, [c.obj EXCEPT !.status = "processing"])
                     EXCEPT !.pc = "branch"]]
    /\ UNCHANGED <<acct, txn, logs, ncalls, nfaults, Others>>

\* line 44 without the fee.
total_amount_without_fee(obj) == obj.amount

\* line 44: what a debit takes from the account.
total_amount(obj) == obj.amount + obj.fee_amount

\* line 66: what a credit adds to the account.
credit_net_amount(obj) == obj.amount - obj.fee_amount

\* lines 42-50 and 61-67: the debit / credit branch up to the account mutation,
\* or up to the save of the failed status.
branch(w) ==
    LET c == call[w]
        total == total_amount(c.obj)
        net == credit_net_amount(c.obj)
    IN
    /\ c.pc = "branch"
    /\ (c.obj.transaction_type = "debit" /\ ~ can_debit(c.account, total))
          \/ ~ AcctLocked(w, c.obj.account)
    /\ call' = [call EXCEPT ![w] =
          IF c.obj.transaction_type = "debit"
          THEN IF ~ can_debit(c.account, total)
               THEN [Transaction_save(c, [c.obj EXCEPT !.status = "failed",
                                              !.failure_reason = "Insufficient funds"])
                       EXCEPT !.pc = "log_insufficient"]
               ELSE LET r == debit(c.account, total) IN
                    [c EXCEPT !.pc = "set_completed", !.account = r.account,
                              !.wa = IF r.saved THEN <<r.account>> ELSE @]
          ELSE IF c.obj.transaction_type = "credit"
          THEN LET a2 == credit(c.account, net) IN
               [c EXCEPT !.pc = "set_completed", !.account = a2, !.wa = <<a2>>]
          ELSE [c EXCEPT !.pc = "set_completed"]]
    /\ UNCHANGED <<acct, txn, logs, ncalls, nfaults, Others>>

\* lines 52-59
log_insufficient(w) ==
    LET c == call[w] IN
    /\ c.pc = "log_insufficient"
    /\ call' = [call EXCEPT ![w] =
                  [c EXCEPT !.pc = "commit", !.rv = "False",
                            !.wlogs = @ \o <<Log("processing", "failed",
                                                 FailMsg("Insufficient funds"))>>]]
    /\ UNCHANGED <<acct, txn, logs, ncalls, nfaults, Others>>

\* lines 70-72
set_completed(w) ==
    LET c == call[w] IN
    /\ c.pc = "set_completed"
    /\ call' = [call EXCEPT ![w] =
                  [Transaction_save(c, [c.obj EXCEPT !.status = "completed",
                                                     !.processed_at = "now"])
                     EXCEPT !.pc = "log_completed"]]
    /\ UNCHANGED <<acct, txn, logs, ncalls, nfaults, Others>>

\* lines 74-82
log_completed(w) ==
    LET c == call[w] IN
    /\ c.pc = "log_completed"
    /\ call' = [call EXCEPT ![w] =
                  [c EXCEPT !.pc = "commit", !.rv = "True",
                            !.wlogs = @ \o <<Log("processing", "completed",
                                                 "Transaction completed successfully")>>]]
    /\ UNCHANGED <<acct, txn, logs, ncalls, nfaults, Others>>

\* The atomic block is left by a return: everything written in it is committed.
commit(w) ==
    LET c == call[w] IN
    /\ c.pc = "commit"
    /\ txn' = CommitTxn(c)
    /\ acct' = CommitAcct(c)
    /\ logs' = CommitLogs(c)
    /\ call' = [call EXCEPT ![w] = Return(c, c.rv)]
    /\ UNCHANGED <<ncalls, nfaults, Others>>

\* The same error with the statements not wrapped in one unit: what was written
\* before the error stays.
unit_fault_keeps_writes(w, e) ==
    LET c == call[w] IN
    /\ c.pc \in UnitPcs
    /\ nfaults < MaxFaults
    /\ txn' = CommitTxn(c)
    /\ acct' = CommitAcct(c)
    /\ logs' = CommitLogs(c)
    /\ call' = [call EXCEPT ![w] = [Rollback(c) EXCEPT !.pc = "except_save", !.err = e]]
    /\ nfaults' = nfaults + 1
    /\ UNCHANGED <<ncalls, Others>>

\* A persistence error raised by any statement of the atomic block: the block
\* rolls back and control passes to the except branch (line 84).
unit_fault(w, e) ==
    LET c == call[w] IN
    /\ c.pc \in UnitPcs
    /\ nfaults < MaxFaults
    /\ call' = [call EXCEPT ![w] = [Rollback(c) EXCEPT !.pc = "except_save", !.err = e]]
    /\ nfaults' = nfaults + 1
    /\ UNCHANGED <<acct, txn, logs, ncalls, Others>>

\* lines 86-88: outside the atomic block every statement commits on its own.
except_save(w) ==
    LET c == call[w]
        obj == [c.obj EXCEPT !.status = "failed", !.failure_reason = c.err]
    IN
    /\ c.pc = "except_save"
    /\ ~ TxnLocked(w, c.t)
    /\ logs' = [logs EXCEPT ![c.t] = @ \o log_transaction_status_change(<<txn[c.t]>>, obj)]
    /\ txn' = [txn EXCEPT ![c.t] = obj]
    /\ call' = [call EXCEPT ![w] = [c EXCEPT !.pc = "except_log", !.obj = obj]]
    /\ UNCHANGED <<acct, ncalls, nfaults, Others>>

\* lines 90-98
except_log(w) ==
    LET c == call[w] IN
    /\ c.pc = "except_log"
    /\ logs' = [logs EXCEPT ![c.t] = Append(@, Log("processing", "failed", FailMsg(c.err)))]
    /\ call' = [call EXCEPT ![w] = Return(c, "False")]
    /\ UNCHANGED <<acct, txn, ncalls, nfaults, Others>>

\* except_fault when execute_recurring_transaction has no except clause of its
\* own: the error ends the scan as well.
except_fault_uncaught(w) ==
    LET c == call[w] IN
    /\ c.pc \in {"except_save", "except_log"}
    /\ call' = [call EXCEPT ![w] = [IdleCall EXCEPT !.pc = "return", !.kind = c.kind,
                                                    !.t = c.t, !.rv = "raised",
                                                    !.start_status = c.start_status,
                                                    !.results = c.results]]
    /\ UNCHANGED <<acct, txn, logs, ncalls, nfaults, Others>>

\* A persistence error inside the except branch is not caught by
\* process_transaction: it propagates to the caller (and ends a task that was
\* iterating).  execute_recurring_transaction catches it (services.py 251-254)
\* and returns False.  In TransactionCreateView.create it leaves the view's
\* atomic block (views.py 66), which rolls back the transaction the view created
\* and its log entries: no row is left under its id.
except_fault(w) ==
    LET c == call[w] IN
    /\ c.pc \in {"except_save", "except_log"}
    /\ call' = [call EXCEPT ![w] =
                  IF c.kind \in {"recurring", "scan"}
                  THEN AfterExecute(c, "False")
                  ELSE [IdleCall EXCEPT !.pc = "return", !.kind = c.kind,
                                        !.t = c.t, !.rv = "raised",
                                        !.start_status = c.start_status]]
    /\ IF c.kind = "trigger"
       THEN /\ txn' = [txn EXCEPT ![c.t] = NoObj]
            /\ logs' = [logs EXCEPT ![c.t] = <<>>]
       ELSE UNCHANGED <<txn, logs>>
    /\ UNCHANGED <<acct, ncalls, nfaults, Others>>

\* ------------------------------------------------------ Transaction.cancel
\* views.py 117-122: cancel_transaction loads the transaction.
cancel_call(w, t, reason, conc) ==
    /\ MayStart(w, conc)
    /\ t \in DOMAIN txn
    /\ call' = [call EXCEPT ![w] = [IdleCall EXCEPT !.pc = "cancel", !.kind = "cancel",
                                                    !.t = t, !.obj = txn[t],
                                                    !.start_status = txn[t].status,
                                                    !.err = reason]]
    /\ UNCHANGED <<acct, txn, logs, ncalls, nfaults, Others>>

\* Transaction.cancel that does not record the reason.
cancel_without_reason(obj, reason) ==
    IF can_cancel(obj)
    THEN [obj |-> [obj EXCEPT !.status = "cancelled"], saved |-> TRUE, ok |-> "True"]
    ELSE [obj |-> obj, saved |-> FALSE, ok |-> "False"]

\* Transaction.cancel on the loaded object: the object after the call and the
\* value returned.
cancel(obj, reason) ==
    IF can_cancel(obj)
    THEN [obj |-> [obj EXCEPT !.status = "cancelled", !.failure_reason = reason],
          saved |-> TRUE, ok |-> "True"]
    ELSE [obj |-> obj, saved |-> FALSE, ok |-> "False"]

\* views.py 124-142: can_cancel, cancel (with its save and the pre_save
\* receiver), response.
cancel_transaction(w) ==
    LET c == call[w]
        r == cancel(c.obj, c.err)
    IN
    /\ c.pc = "cancel"
    /\ r.saved => ~ TxnLocked(w, c.t)
    /\ IF r.saved
       THEN /\ logs' = [logs EXCEPT ![c.t] =
                          @ \o log_transaction_status_change(<<txn[c.t]>>, r.obj)]
            /\ txn' = [txn EXCEPT ![c.t] = r.obj]
       ELSE UNCHANGED <<logs, txn>>
    /\ call' = [call EXCEPT ![w] = Return(c, r.ok)]
    /\ UNCHANGED <<acct, ncalls, nfaults, Others>>

\* The caller has received the result of its call.
done(w) ==
    /\ call[w].pc = "return"
    /\ call' = [call EXCEPT ![w] = IdleCall]
    /\ UNCHANGED <<acct, txn, logs, ncalls, nfaults, Others>>

\* ------------------------------------- tasks.py update_failed_transactions
\* failure_reason__icontains='temporary', over the reasons that can occur.
icontains_temporary(reason) == reason = "temporary outage"

RECURSIVE Descending(_)
\* The ids of S, newest (largest) first: Transaction.Meta.ordering = -created_at.
Descending(S) ==
    IF S = {} THEN <<>>
    ELSE LET m == CHOOSE x \in S : \A y \in S : y <= x
         IN <<m>> \o Descending(S \ {m})

failed_transactions ==
    {t \in DOMAIN txn : txn[t].status = "failed" /\ icontains_temporary(txn[t].failure_reason)}

\* lines 54-61: the task starts; the queryset is evaluated when the loop begins.
update_failed_transactions(w, conc) ==
    /\ MayStart(w, conc)
    /\ ncalls + Cardinality(failed_transactions) <= MaxCalls
    /\ LET ids == Descending(failed_transactions) IN
       call' = [call EXCEPT ![w] =
                  [IdleCall EXCEPT !.pc = "task_loop", !.kind = "task",
                                   !.queue = [i \in 1..Len(ids) |->
                                                [id |-> ids[i], row |-> txn[ids[i]]]]]]
    /\ UNCHANGED <<acct, txn, logs, ncalls, nfaults, Others>>

\* lines 62-73: the next iteration calls process_transaction; after the last
\* one the task returns.
task_loop(w) ==
    LET c == call[w] IN
    /\ c.pc = "task_loop"
    /\ IF Len(c.queue) = 0
       THEN /\ call' = [call EXCEPT ![w] = [IdleCall EXCEPT !.pc = "return", !.kind = "task",
                                                            !.rv = "done",
                                                            !.retry_count = c.retry_count]]
            /\ UNCHANGED ncalls
       ELSE /\ call' = [call EXCEPT ![w] =
                          [IdleCall EXCEPT !.pc = "unit_start", !.kind = "task",
                                           !.t = Head(c.queue).id,
                                           !.obj = Head(c.queue).row,
                                           !.start_status = Head(c.queue).row.status,
                                           !.queue = Tail(c.queue),
                                           !.retry_count = c.retry_count]]
            /\ ncalls' = ncalls + 1
    /\ UNCHANGED <<acct, txn, logs, nfaults, Others>>

\* ------------------------------------------------- recurring transactions
RecIds == {1}
RecAmounts == {600}
RecCategories == {"payment"}
\* account numbers are sequences of characters
StartDates == {<<2024, 1, 30>>, <<2024, 1, 31>>, <<2024, 2, 1>>}
EndDates == {NoDate, <<2024, 1, 30>>, <<2024, 1, 31>>}
MaxExecutions == {<<>>, <<0>>, <<1>>, <<2>>}
\* <<balance, available_balance, status>> of an account that recurring payments debit
RecOpeningAccounts == {<<1400, 1400, "active">>, <<699, 699, "active">>}

\* CreateRecurringTransactionSerializer.validate / create: the definition starts
\* active with next_execution_date = start_date and execution_count = 0.
create_recurring(a, amount, category, recipient, frequency, start_date, end_date, max_executions, ids) ==
    /\ Quiescent
    /\ Len(rec) + 1 \in ids
    /\ rec' = Append(rec, [account |-> a, amount |-> amount, category |-> category,
                           recipient_account_number |-> recipient,
                           frequency |-> frequency,
                           start_date |-> start_date, end_date |-> end_date,
                           next_execution_date |-> start_date, status |-> "active",
                           execution_count |-> 0, max_executions |-> max_executions])
    /\ UNCHANGED <<acct, txn, logs, call, opening, last, ncalls, nfaults, nops, today>>

\* RecurringTransactionDetailView.update through RecurringTransactionSerializer:
\* the owner changes one writable field of the definition.
update_recurring(r, field, date, status, max_executions) ==
    /\ Quiescent
    /\ nops < MaxOps
    /\ r \in DOMAIN rec
    /\ rec' = [rec EXCEPT ![r] =
                 CASE field = "next_execution_date" -> [@ EXCEPT !.next_execution_date = date]
                   [] field = "status" -> [@ EXCEPT !.status = status]
                   [] OTHER -> [@ EXCEPT !.max_executions = max_executions]]
    /\ nops' = nops + 1
    /\ UNCHANGED <<acct, txn, logs, call, opening, last, ncalls, nfaults, today>>

\* create_transfer: a pending debit to the recipient; the fee is the one of a
\* transfer whatever the category passed.
\* create_transfer with the fee taken at the rate of the transfer's category.
create_transfer_fee_by_category(from_account, to_account_number, amount, category) ==
    [NewTransaction(from_account, "debit", amount,
                    calculate_transaction_fee(amount, category))
       EXCEPT !.recipient_account_number = to_account_number, !.category = category]

create_transfer(from_account, to_account_number, amount, category) ==
    [NewTransaction(from_account, "debit", amount,
                    calculate_transaction_fee(amount, "transfer"))
       EXCEPT !.recipient_account_number = to_account_number, !.category = category]

\* execute_recurring_transaction with the transaction created before can_execute
\* is consulted.
Execute_create_first(w, kind, r, rt, queue, results) ==
    LET c == [IdleCall EXCEPT !.kind = kind, !.r = r, !.rt = rt, !.queue = queue,
                              !.results = results]
        obj == create_transfer(rt.account, rt.recipient_account_number,
                               rt.amount, rt.category)
    IN /\ Len(txn) < MaxRecTx
       /\ txn' = Append(txn, obj)
       /\ logs' = Append(logs, log_transaction_status_change(<<>>, obj)
                                \o create_initial_transaction_log(obj, TRUE))
       /\ call' = [call EXCEPT ![w] =
                     IF ~ can_execute(rt, today)
                     THEN AfterExecute(c, "False")
                     ELSE [c EXCEPT !.pc = "unit_start", !.t = Len(txn) + 1,
                                    !.obj = obj, !.start_status = obj.status]]

\* services.py 221-235: execute_recurring_transaction on the in-memory definition
\* rt (row r) up to the call of process_transaction; it returns False at once
\* when can_execute is false.
Execute(w, kind, r, rt, queue, results) ==
    LET c == [IdleCall EXCEPT !.kind = kind, !.r = r, !.rt = rt, !.queue = queue,
                              !.results = results]
    IN IF ~ can_execute(rt, today)
       THEN /\ call' = [call EXCEPT ![w] = AfterExecute(c, "False")]
            /\ UNCHANGED <<txn, logs>>
       ELSE /\ Len(txn) < MaxRecTx
            /\ LET obj == create_transfer(rt.account, rt.recipient_account_number,
                                          rt.amount, rt.category) IN
               /\ txn' = Append(txn, obj)
               /\ logs' = Append(logs, log_transaction_status_change(<<>>, obj)
                                        \o create_initial_transaction_log(obj, TRUE))
               /\ call' = [call EXCEPT ![w] =
                             [c EXCEPT !.pc = "unit_start", !.t = Len(txn) + 1,
                                       !.obj = obj, !.start_status = obj.status]]

\* A caller hands a freshly loaded definition to execute_recurring_transaction.
execute_recurring_transaction(w, r, conc) ==
    /\ MayStart(w, conc)
    /\ r \in DOMAIN rec
    /\ Execute(w, "recurring", r, rec[r], <<>>, NoResults)
    /\ UNCHANGED <<acct, opening, last, ncalls, nfaults, nops, rec, today>>

\* services.py 239-240 only: the definition is counted and moved but never
\* marked completed.
executed_stays_active(rt) ==
    LET counted == [rt EXCEPT !.execution_count = @ + 1]
    IN [counted EXCEPT !.next_execution_date = calculate_next_execution_date(counted)]

\* services.py 239-247: the in-memory definition after a successful execution.
executed(rt) ==
    LET counted == [rt EXCEPT !.execution_count = @ + 1]
        moved == [counted EXCEPT !.next_execution_date =
                                     calculate_next_execution_date(counted)]
    IN IF Truthy(moved.max_executions)
          /\ moved.execution_count >= moved.max_executions[1]
       THEN [moved EXCEPT !.status = "completed"]
       ELSE moved

\* The update of the definition without the test of `success`.
rec_update_unconditional(w) ==
    LET c == call[w] IN
    /\ c.pc = "rec_update"
    /\ rec' = [rec EXCEPT ![c.r] = executed(c.rt)]
    /\ call' = [call EXCEPT ![w] = AfterExecute(c, c.rv)]
    /\ UNCHANGED <<acct, txn, logs, opening, last, ncalls, nfaults, nops, today>>

\* services.py 237-249: after process_transaction returned.  On success the
\* definition is advanced and saved; the value is passed on.
rec_update(w) ==
    LET c == call[w] IN
    /\ c.pc = "rec_update"
    /\ IF c.rv = "True"
       THEN rec' = [rec EXCEPT ![c.r] = executed(c.rt)]
       ELSE UNCHANGED rec
    /\ call' = [call EXCEPT ![w] = AfterExecute(c, c.rv)]
    /\ UNCHANGED <<acct, txn, logs, opening, last, ncalls, nfaults, nops, today>>

\* services.py 248 and 251-254: recurring_transaction.save() raises; the error is
\* caught, nothing is stored and False is returned.
rec_save_fault(w) ==
    LET c == call[w] IN
    /\ c.pc = "rec_update"
    /\ c.rv = "True"
    /\ nfaults < MaxFaults
    /\ call' = [call EXCEPT ![w] = AfterExecute(c, "False")]
    /\ nfaults' = nfaults + 1
    /\ UNCHANGED <<acct, txn, logs, opening, last, ncalls, nops, rec, today>>

\* The definitions the scan selects: status active and next_execution_date <= today.
due_transactions ==
    {r \in DOMAIN rec : rec[r].status = "active" /\ DateLE(rec[r].next_execution_date, today)}

\* services.py 265-276: process_due_recurring_transactions starts; the queryset
\* is counted and evaluated.
process_due_recurring_transactions(w, conc) ==
    /\ MayStart(w, conc)
    /\ Len(txn) + Cardinality(due_transactions) <= MaxRecTx
    /\ LET ids == Descending(due_transactions) IN
       call' = [call EXCEPT ![w] =
                  [IdleCall EXCEPT !.pc = "scan_loop", !.kind = "scan",
                                   !.queue = [i \in 1..Len(ids) |->
                                                [id |-> ids[i], row |-> rec[ids[i]]]],
                                   !.results = [NoResults EXCEPT
                                                  !.total = Cardinality(due_transactions)]]]
    /\ UNCHANGED <<acct, txn, logs, ncalls, nfaults, Others>>

\* services.py 278-283: the next iteration calls execute_recurring_transaction;
\* after the last one the results are returned.
scan_loop(w) ==
    LET c == call[w] IN
    /\ c.pc = "scan_loop"
    /\ IF Len(c.queue) = 0
       THEN /\ call' = [call EXCEPT ![w] = [IdleCall EXCEPT !.pc = "return", !.kind = "scan",
                                                            !.rv = "results",
                                                            !.results = c.results]]
            /\ UNCHANGED <<txn, logs>>
       ELSE Execute(w, "scan", Head(c.queue).id, Head(c.queue).row,
                    Tail(c.queue), c.results)
    /\ UNCHANGED <<acct, opening, last, ncalls, nfaults, nops, rec, today>>

\* ------------------------------------------- direct operations on an account
DirectAmounts == {0, 3, 7}

\* Account.debit called by itself.
account_debit(a, amount) ==
    /\ Quiescent
    /\ nops < MaxOps
    /\ LET r == debit(acct[a], amount) IN
       /\ acct' = IF r.saved THEN [acct EXCEPT ![a] = r.account] ELSE acct
       /\ last' = [NoLast EXCEPT !.op = "debit", !.account = a, !.amount = amount,
                                 !.value = IF r.ok THEN "True" ELSE "False"]
    /\ nops' = nops + 1
    /\ UNCHANGED <<txn, logs, call, ncalls, nfaults, opening, rec, today>>

\* Account.credit called by itself.
account_credit(a, amount) ==
    /\ Quiescent
    /\ nops < MaxOps
    /\ acct' = [acct EXCEPT ![a] = credit(acct[a], amount)]
    /\ last' = [NoLast EXCEPT !.op = "credit", !.account = a, !.amount = amount]
    /\ nops' = nops + 1
    /\ UNCHANGED <<txn, logs, call, ncalls, nfaults, opening, rec, today>>

\* AccountAdmin: balance, available_balance and status are editable fields and
\* the edited row is stored through Account.save.
admin_edit(a, balance, available_balance, status) ==
    /\ Quiescent
    /\ nops < MaxOps
    /\ acct' = [acct EXCEPT ![a] = Account_save([id |-> a, balance |-> balance,
                                                 available_balance |-> available_balance,
                                                 status |-> status])]
    /\ last' = [NoLast EXCEPT !.op = "admin", !.account = a]
    /\ nops' = nops + 1
    /\ UNCHANGED <<txn, logs, call, ncalls, nfaults, opening, rec, today>>

\* ---------------------------------------------------------- specifications
Types == {"debit", "credit"}
CancelReasons == {"Cancelled by user"}

\* The statements of process_transaction.
ProcessStep(w) ==
    \/ unit_start(w)
    \/ set_processing(w)
    \/ branch(w)
    \/ log_insufficient(w)
    \/ set_completed(w)
    \/ log_completed(w)
    \/ commit(w)

\* A persistence error and the except branch of process_transaction.
FaultStep(w) ==
    \/ \E e \in ErrTexts : unit_fault(w, e)
    \/ except_save(w)
    \/ except_log(w)
    \/ except_fault(w)

\* Calls run one after the other.
Next ==
    \/ \E a \in Accounts, ty \in Types, am \in Amounts, fee \in Fees :
          create_transaction(a, ty, am, fee, MaxTx)
    \/ \E w \in Workers, t \in 1..MaxTx : process_call(w, t, FALSE)
    \/ \E w \in Workers : update_failed_transactions(w, FALSE)
    \/ \E w \in Workers : task_loop(w)
    \/ \E w \in Workers, t \in 1..MaxTx, r \in CancelReasons : cancel_call(w, t, r, FALSE)
    \/ \E w \in Workers : cancel_transaction(w)
    \/ \E w \in Workers : done(w)
    \/ \E w \in Workers : ProcessStep(w)
    \/ \E w \in Workers : FaultStep(w)

Spec == Init /\ [][Next]_vars

\* Calls run one after the other without persistence errors, and the accounts
\* are also operated on directly.
NextAccount ==
    \/ \E a \in Accounts, ty \in Types, am \in Amounts, fee \in Fees :
          create_transaction(a, ty, am, fee, MaxTx)
    \/ \E w \in Workers, t \in 1..MaxTx : process_call(w, t, FALSE)
    \/ \E w \in Workers : ProcessStep(w)
    \/ \E w \in Workers : done(w)
    \/ \E a \in Accounts, am \in DirectAmounts : account_debit(a, am)
    \/ \E a \in Accounts, am \in DirectAmounts : account_credit(a, am)
    \/ \E a \in Accounts, b \in DirectAmounts, av \in DirectAmounts, st \in Statuses :
          admin_edit(a, b, av, st)

AccountSpec == Init /\ [][NextAccount]_vars

\* Calls run one after the other and no persistence error occurs.
NextCalls ==
    \/ \E a \in Accounts, ty \in Types, am \in Amounts, fee \in Fees :
          create_transaction(a, ty, am, fee, MaxTx)
    \/ \E w \in Workers, t \in 1..MaxTx : process_call(w, t, FALSE)
    \/ \E w \in Workers, t \in 1..MaxTx, r \in CancelReasons : cancel_call(w, t, r, FALSE)
    \/ \E w \in Workers : cancel_transaction(w)
    \/ \E w \in Workers : done(w)
    \/ \E w \in Workers : ProcessStep(w)

CallSpec == Init /\ [][NextCalls]_vars

\* Calls overlap: their steps interleave.  A transaction is created while no call
\* is running: creating it touches no row that a running call reads or writes.
NextConc ==
    \/ \E a \in Accounts, ty \in Types, am \in Amounts, fee \in Fees :
          create_transaction(a, ty, am, fee, MaxConcTx)
    \/ \E w \in Workers, t \in 1..MaxConcTx : process_call(w, t, TRUE)
    \/ \E w \in Workers, t \in 1..MaxConcTx, r \in CancelReasons : cancel_call(w, t, r, TRUE)
    \/ \E w \in Workers : cancel_transaction(w)
    \/ \E w \in Workers : done(w)
    \/ \E w \in Workers : ProcessStep(w)

ConcSpec == Init /\ [][NextConc]_vars

\* Recurring definitions are created, edited by their owner, executed directly
\* and scanned, one call after the other and without persistence errors.
RecInit ==
    /\ \E ob \in [Accounts -> RecOpeningAccounts] :
          acct = [a \in Accounts |->
                    Account_save([id |-> a, balance |-> ob[a][1],
                                  available_balance |-> ob[a][2], status |-> ob[a][3]])]
    /\ Start(Today)

RecFields == {"next_execution_date", "status", "max_executions"}

NextRec ==
    \/ \E a \in Accounts, am \in RecAmounts, ca \in RecCategories, f \in Frequencies,
          sd \in StartDates, ed \in EndDates, mx \in MaxExecutions :
          create_recurring(a, am, ca, Recipient, f, sd, ed, mx, RecIds)
    \/ \E r \in RecIds, fl \in RecFields, d \in StartDates, st \in RecStatuses,
          mx \in MaxExecutions :
          update_recurring(r, fl, d, st, mx)
    \/ \E w \in Workers, r \in RecIds : execute_recurring_transaction(w, r, FALSE)
    \/ \E w \in Workers : process_due_recurring_transactions(w, FALSE)
    \/ \E w \in Workers : scan_loop(w)
    \/ \E w \in Workers : rec_update(w)
    \/ \E w \in Workers : ProcessStep(w)
    \/ \E w \in Workers : done(w)

RecSpec == RecInit /\ [][NextRec]_vars

\* The operations of AccountSpec on an account of any status (ACCOUNT_STATUS).
ACCOUNT_STATUS == {"active", "inactive", "suspended", "closed"}
CreditOpeningAccounts == {<<10, 7, st>> : st \in ACCOUNT_STATUS} \cup {<<0, 0, "active">>}

CreditInit ==
    /\ \E ob \in [Accounts -> CreditOpeningAccounts] :
          acct = [a \in Accounts |->
                    Account_save([id |-> a, balance |-> ob[a][1],
                                  available_balance |-> ob[a][2], status |-> ob[a][3]])]
    /\ Start(Today)

CreditSpec == CreditInit /\ [][NextAccount]_vars

\* calculate_transaction_fee called by itself, MaxQuotes times at most, and
\* recurring definitions of several categories executed.
MaxQuotes == 2
FeeAmounts == {200, 10000, 20000, 10000000}
FeeTypes == {"transfer", "payment", "withdrawal", "other"}
FeeRecAmounts == {600, 20000}
FeeCategories == {"transfer", "payment", "withdrawal"}
FeeOpeningAccounts == {<<50000, 50000, "active">>, <<20100, 20100, "active">>}

FeeInit ==
    /\ \E ob \in [Accounts -> FeeOpeningAccounts] :
          acct = [a \in Accounts |->
                    Account_save([id |-> a, balance |-> ob[a][1],
                                  available_balance |-> ob[a][2], status |-> ob[a][3]])]
    /\ Start(Today)

\* core/utils.py 53-64 evaluated on (amount, transaction_type).
fee_quote(amount, transaction_type) ==
    /\ Quiescent
    /\ nops < MaxQuotes
    /\ last' = [NoLast EXCEPT !.op = "fee", !.amount = amount, !.type = transaction_type,
                              !.fee = calculate_transaction_fee(amount, transaction_type)]
    /\ nops' = nops + 1
    /\ UNCHANGED <<acct, txn, logs, call, ncalls, nfaults, opening, rec, today>>

NextFee ==
    \/ \E am \in FeeAmounts, ty \in FeeTypes : fee_quote(am, ty)
    \/ \E a \in Accounts, am \in FeeRecAmounts, ca \in FeeCategories :
          create_recurring(a, am, ca, Recipient, "monthly", Today, NoDate, <<>>, RecIds)
    \/ \E w \in Workers, r \in RecIds : execute_recurring_transaction(w, r, FALSE)
    \/ \E w \in Workers : rec_update(w)
    \/ \E w \in Workers : ProcessStep(w)
    \/ \E w \in Workers : done(w)

FeeSpec == FeeInit /\ [][NextFee]_vars

\* ------------------------- views.py TransactionCreateView, serializers.py
\* The caller of the view is the first user.
Caller == "u1"
MaxTransactionLimit == 10000000

\* CreateTransactionSerializer.is_valid: validate_amount, then
\* validate_recipient_account_number, then validate (account lookup and the
\* balance check with the transfer fee).
is_valid_without_balance_check(account_id, amount, recipient) ==
    /\ ~ (amount <= 0)
    /\ ~ (amount > MaxTransactionLimit)
    /\ ~ (recipient # <<>> /\ ~ validate_account_number(recipient))
    /\ account_id \in DOMAIN acct
    /\ user[account_id] = Caller

is_valid(account_id, amount, recipient) ==
    /\ ~ (amount <= 0)
    /\ ~ (amount > MaxTransactionLimit)
    /\ ~ (recipient # <<>> /\ ~ validate_account_number(recipient))
    /\ account_id \in DOMAIN acct
    /\ user[account_id] = Caller
    /\ can_debit(acct[account_id],
                 amount + calculate_transaction_fee(amount, "transfer"))

MaxTriggers == 2

\* TransactionCreateView.create (views.py 60-88): validation, then the
\* transaction is created and handed to process_transaction.  Requests are
\* served concurrently.
create_and_process(w, account_id, amount, recipient) ==
    /\ MayStart(w, TRUE)
    /\ ncalls < MaxTriggers
    /\ ncalls' = ncalls + 1
    /\ IF ~ is_valid(account_id, amount, recipient)
       THEN /\ call' = [call EXCEPT ![w] =
                          [IdleCall EXCEPT !.pc = "return", !.kind = "trigger",
                                           !.rv = "validation error"]]
            /\ UNCHANGED <<txn, logs>>
       ELSE LET obj == [NewTransaction(account_id, "debit", amount,
                                       calculate_transaction_fee(amount, "transfer"))
                          EXCEPT !.recipient_account_number = recipient,
                                 !.category = "transfer"]
            IN /\ txn' = Append(txn, obj)
               /\ logs' = Append(logs, log_transaction_status_change(<<>>, obj)
                                        \o create_initial_transaction_log(obj, TRUE))
               /\ call' = [call EXCEPT ![w] =
                             [IdleCall EXCEPT !.pc = "unit_start", !.kind = "trigger",
                                              !.t = Len(txn) + 1, !.obj = obj,
                                              !.start_status = obj.status]]
    /\ UNCHANGED <<acct, opening, last, nfaults, nops, rec, today>>

TriggerOpeningAccounts == {<<20000000, 20000000, "active">>, <<650, 650, "active">>,
                           <<1000, 1000, "active">>,
                           <<20000, 20000, "suspended">>}
OtherOpeningAccount == <<500, 500, "active">>
\* The requests made: <<account_id, amount, recipient_account_number>>.
ShortNumber == <<"A", "C", "C", "0", "0", "0", "0", "0", "0", "2">>
WrongPrefix == <<"A", "C", "X", "0", "0", "0", "0", "0", "0", "0", "2">>
LetterSuffix == <<"A", "C", "C", "0", "0", "0", "0", "0", "0", "0", "X">>
SuperscriptSuffix ==
    <<"A", "C", "C", "0", "0", "0", "0", "0", "0", "0", "SUPERSCRIPT TWO">>
TriggerRequests ==
    {<<"A1", 600, Recipient>>, <<"A1", 10000000, <<>> >>,
     <<"A1", 600, SuperscriptSuffix>>,
     <<"A1", 0, Recipient>>, <<"A1", 0 - 200, <<>> >>, <<"A1", 10000200, Recipient>>,
     <<"A1", 600, ShortNumber>>, <<"A1", 600, WrongPrefix>>,
     <<"A1", 600, LetterSuffix>>,
     <<"A2", 600, Recipient>>, <<"A9", 600, Recipient>>}

TriggerInit ==
    /\ \E ob \in TriggerOpeningAccounts :
          acct = [a \in TriggerAccounts |->
                    IF a = "A1"
                    THEN Account_save([id |-> a, balance |-> ob[1],
                                       available_balance |-> ob[2], status |-> ob[3]])
                    ELSE Account_save([id |-> a, balance |-> OtherOpeningAccount[1],
                                       available_balance |-> OtherOpeningAccount[2],
                                       status |-> OtherOpeningAccount[3]])]
    /\ Start(Today)

NextTrigger ==
    \/ \E w \in Workers, rq \in TriggerRequests :
          create_and_process(w, rq[1], rq[2], rq[3])
    \/ \E w \in Workers : ProcessStep(w)
    \/ \E w \in Workers : FaultStep(w)
    \/ \E w \in Workers : done(w)

TriggerSpec == TriggerInit /\ [][NextTrigger]_vars

\* Executions and scans of one due monthly definition overlap.
ConcMaxExecutions == {<<>>, <<1>>}

NextRecConc ==
    \/ \E a \in Accounts, am \in RecAmounts, ca \in RecCategories,
          mx \in ConcMaxExecutions :
          create_recurring(a, am, ca, Recipient, "monthly", Today, NoDate, mx, RecIds)
    \/ \E w \in Workers, r \in RecIds : execute_recurring_transaction(w, r, TRUE)
    \/ \E w \in Workers : process_due_recurring_transactions(w, TRUE)
    \/ \E w \in Workers : scan_loop(w)
    \/ \E w \in Workers : rec_update(w)
    \/ \E w \in Workers : ProcessStep(w)
    \/ \E w \in Workers : done(w)

RecConcSpec == RecInit /\ [][NextRecConc]_vars

\* Calls run one after the other on transactions whose fee may exceed the amount.
LedgerFees == {0, 1, 7}

NextLedger ==
    \/ \E a \in Accounts, ty \in Types, am \in Amounts, fee \in LedgerFees :
          create_transaction(a, ty, am, fee, MaxTx)
    \/ \E w \in Workers, t \in 1..MaxTx : process_call(w, t, FALSE)
    \/ \E w \in Workers : ProcessStep(w)
    \/ \E w \in Workers : done(w)

LedgerSpec == Init /\ [][NextLedger]_vars

\* Transfers requested through the view and recurring payments, all naming the
\* second account as recipient.
FrameRequests == {<<"A1", 600, Recipient>>, <<"A1", 600, <<>> >>, <<"A2", 600, Recipient>>}

NextFrame ==
    \/ \E w \in Workers, rq \in FrameRequests :
          create_and_process(w, rq[1], rq[2], rq[3])
    \/ \E am \in RecAmounts, ca \in RecCategories :
          create_recurring("A1", am, ca, Recipient, "monthly", Today, NoDate, <<>>, RecIds)
    \/ \E w \in Workers, r \in RecIds : execute_recurring_transaction(w, r, FALSE)
    \/ \E w \in Workers : rec_update(w)
    \/ \E w \in Workers : ProcessStep(w)
    \/ \E w \in Workers : done(w)

FrameSpec == TriggerInit /\ [][NextFrame]_vars

\* Scans over two definitions of one account, with persistence errors.
ScanIds == {1, 2}
ScanStartDates == {<<2024, 1, 30>>, <<2024, 2, 1>>}
ScanEndDates == {NoDate, <<2024, 1, 30>>}

NextScan ==
    \/ \E a \in Accounts, am \in RecAmounts, ca \in RecCategories,
          sd \in ScanStartDates, ed \in ScanEndDates :
          create_recurring(a, am, ca, Recipient, "monthly", sd, ed, <<>>, ScanIds)
    \/ \E w \in Workers : process_due_recurring_transactions(w, FALSE)
    \/ \E w \in Workers : scan_loop(w)
    \/ \E w \in Workers : rec_update(w)
    \/ \E w \in Workers : rec_save_fault(w)
    \/ \E w \in Workers : ProcessStep(w)
    \/ \E w \in Workers : FaultStep(w)
    \/ \E w \in Workers : done(w)

ScanSpec == RecInit /\ [][NextScan]_vars

\* calculate_next_execution_date applied, up to MaxAdvance times in a row, to a
\* definition with any frequency and any date of two years.
MaxAdvance == 2
DateYears == {2023, 2024}
DateDays == {1, 15, 28, 29, 30, 31}
DateInputs == {d \in DateYears \X (1..12) \X DateDays : d[3] <= DaysInMonth(d[1], d[2])}

DateInit ==
    /\ acct = [a \in Accounts |-> NoAccount]
    /\ opening = acct
    /\ txn = <<>>
    /\ logs = <<>>
    /\ call = [w \in Workers |-> IdleCall]
    /\ last = NoLast
    /\ ncalls = 0
    /\ nfaults = 0
    /\ nops = 0
    /\ today = Today
    /\ \E d \in DateInputs, f \in Frequencies :
          rec = <<[NoRec EXCEPT !.account = "A1", !.frequency = f, !.start_date = d,
                                !.next_execution_date = d, !.status = "active"]>>

\* models.py 196-214 applied to the stored next_execution_date (services.py 241).
next_date(r) ==
    /\ r \in DOMAIN rec
    /\ nops < MaxAdvance
    /\ rec' = [rec EXCEPT ![r].next_execution_date = calculate_next_execution_date(rec[r])]
    /\ nops' = nops + 1
    /\ UNCHANGED <<acct, txn, logs, call, opening, last, ncalls, nfaults, today>>

NextDate == \E r \in RecIds : next_date(r)

DateSpec == DateInit /\ [][NextDate]_vars

\* ================================================================== claims
CountMsg(L, msg) == Cardinality({i \in 1..Len(L) : L[i].message = msg})

Total(t) == txn[t].amount + txn[t].fee_amount

\* The effect of one completion of transaction t on the balance of its account.
Effect(t) == IF txn[t].transaction_type = "debit" THEN 0 - Total(t)
             ELSE txn[t].amount - txn[t].fee_amount

InProcess(c) == c.kind \in {"call", "task"} /\ c.pc \in UnitPcs \cup {"except_save", "except_log"}

\* C1: the net effect of a transaction is applied at most once: a
\* process_transaction call whose transaction did not start as pending never
\* changes an account's balance or available_balance.
C1_NoSecondEffect ==
    [][\A w \in Workers :
          (InProcess(call[w]) /\ call[w].start_status # "pending") => acct' = acct]_vars

\* C2: two overlapping process_transaction calls for two different debits of one
\* account, each affordable alone but not together, never both complete, and the
\* final balance is the opening balance minus the totals of the completed ones.
C2_SerializedDebits ==
    ( /\ Quiescent
      /\ Len(txn) = 2
      /\ txn[1].account = txn[2].account
      /\ \A t \in 1..2 :
            /\ txn[t].transaction_type = "debit"
            /\ txn[t].status \in {"completed", "failed"}
            /\ CountMsg(logs[t], "Transaction processing started") = 1
            /\ \A i \in 1..Len(logs[t]) :
                  /\ logs[t][i].new_status # "cancelled"
                  /\ logs[t][i].message = "Transaction processing started"
                        => logs[t][i].previous_status = "pending"
            /\ Total(t) <= opening[txn[t].account].available_balance
      /\ Total(1) + Total(2) > opening[txn[1].account].available_balance )
    => LET a == txn[1].account
           done1 == IF txn[1].status = "completed" THEN Total(1) ELSE 0
           done2 == IF txn[2].status = "completed" THEN Total(2) ELSE 0
       IN /\ ~ (txn[1].status = "completed" /\ txn[2].status = "completed")
          /\ acct[a].balance = opening[a].balance - (done1 + done2)

\* C3: every account has available_balance <= balance in every reachable state,
\* whatever sequence of Account.debit, Account.credit and process_transaction ran.
C3_AvailableWithinBalance ==
    \A a \in Accounts : acct[a].available_balance <= acct[a].balance

\* A direct operation and a completed transaction have both changed an account
\* whose available balance is strictly below its balance.
C3_Witness ==
    \E a \in Accounts :
       /\ Quiescent
       /\ nops > 0
       /\ \E t \in DOMAIN txn : txn[t].account = a /\ txn[t].status = "completed"
       /\ acct[a] # opening[a]
       /\ acct[a].available_balance < acct[a].balance

\* Number of completions of transaction t recorded in its log.
Completions(t) == CountMsg(logs[t], "Transaction completed successfully")

RECURSIVE LedgerByLog(_, _)
\* Sum, over the first n transactions, of the effects on account a of the
\* completions their logs record.
LedgerByLog(a, n) ==
    IF n = 0 THEN 0
    ELSE LedgerByLog(a, n - 1)
         + (IF txn[n].account = a THEN Completions(n) * Effect(n) ELSE 0)

StatusChanges(L, from, to) ==
    Cardinality({i \in 1..Len(L) : /\ L[i].message = "Status changed"
                                   /\ L[i].previous_status \in from
                                   /\ L[i].new_status \in to})

AllStatuses == {"pending", "processing", "completed", "failed", "cancelled"}

\* C4: process_transaction is all-or-nothing in the persisted state.  The rows
\* written inside the unit (the "processing started" entry, the entries of the
\* two status changes, the terminal entry, the account mutation) are persisted
\* all together or not at all: per transaction the persisted log holds as many
\* start entries as terminal entries of the unit, the status processing is never
\* persisted, a persisted completed status comes with its completion entry, and
\* each account balance is the opening balance plus the effects of exactly the
\* completions that the logs record.
C4_AllOrNothing ==
    /\ \A t \in DOMAIN txn :
          LET L == logs[t]
              started == CountMsg(L, "Transaction processing started")
              finished == Completions(t) + CountMsg(L, FailMsg("Insufficient funds"))
          IN /\ started = finished
             /\ StatusChanges(L, AllStatuses, {"processing"}) = started
             /\ StatusChanges(L, {"processing"}, {"completed", "failed"}) = finished
             /\ StatusChanges(L, {"processing"}, {"completed"}) = Completions(t)
             /\ txn[t].status # "processing"
             /\ txn[t].status = "completed" =>
                   L[Len(L)].message = "Transaction completed successfully"
    /\ \A a \in Accounts :
          /\ acct[a].balance = opening[a].balance + LedgerByLog(a, Len(txn))
          /\ acct[a].available_balance =
                opening[a].available_balance + LedgerByLog(a, Len(txn))

\* A persistence error struck after the account was mutated inside the unit: the
\* call is in its except branch and the persisted balance is still the old one.
C4_Witness ==
    \E w \in Workers :
       /\ call[w].pc = "except_save"
       /\ call[w].account.id \in Accounts
       /\ call[w].account.balance # acct[call[w].account.id].balance
       /\ call[w].obj.status = "completed"

RECURSIVE LedgerByStatus(_, _)
\* Sum, over the first n transactions, of the effects on account a of those
\* whose persisted status is completed.
LedgerByStatus(a, n) ==
    IF n = 0 THEN 0
    ELSE LedgerByStatus(a, n - 1)
         + (IF txn[n].account = a /\ txn[n].status = "completed" THEN Effect(n) ELSE 0)

\* C5: whenever no call is in progress, each account's persisted balance is its
\* opening balance plus (amount - fee) of its completed credits minus
\* (amount + fee) of its completed debits; pending, failed and cancelled
\* transactions contribute nothing.
C5_BalanceMatchesStatuses ==
    Quiescent =>
       \A a \in Accounts :
          acct[a].balance = opening[a].balance + LedgerByStatus(a, Len(txn))

\* The status of transaction t as the operation working on it sees it, and the
\* persisted status when no operation works on it.
Working(c, t) == c.t = t /\ c.pc \notin {"idle", "return", "task_loop"}
Current(t) ==
    IF \E w \in Workers : Working(call[w], t)
    THEN (call[CHOOSE w \in Workers : Working(call[w], t)]).obj.status
    ELSE txn[t].status
CurrentNext(t) ==
    IF \E w \in Workers : Working(call'[w], t)
    THEN (call'[CHOOSE w \in Workers : Working(call'[w], t)]).obj.status
    ELSE txn'[t].status

AllowedTransitions ==
    {<<"pending", "processing">>, <<"processing", "completed">>,
     <<"processing", "failed">>, <<"pending", "cancelled">>,
     <<"processing", "cancelled">>}

\* C6: every change of a transaction's status is pending->processing,
\* processing->completed, processing->failed, pending->cancelled or
\* processing->cancelled; a completed, failed or cancelled status never changes.
C6_Lifecycle ==
    [][\A t \in DOMAIN txn :
          Current(t) # CurrentNext(t) => <<Current(t), CurrentNext(t)>> \in AllowedTransitions]_vars

\* C7: every status change, creation included, produces exactly one log entry
\* whose previous_status / new_status are the status before / after the change:
\* the persisted log of a transaction is a chain that starts with "" -> pending,
\* in which every entry starts from the status the previous entry ended in,
\* no entry records a non-change, and the last entry ends in the persisted status.
C7_OneLogPerChange ==
    \A t \in DOMAIN txn :
       LET L == logs[t] IN
       /\ Len(L) >= 1
       /\ L[1].previous_status = "" /\ L[1].new_status = "pending"
       /\ \A i \in 2..Len(L) : /\ L[i].previous_status = L[i - 1].new_status
                               /\ L[i].previous_status # L[i].new_status
       /\ L[Len(L)].new_status = txn[t].status

\* C8: Account.debit(amount) on an account that is active and has
\* available_balance >= amount (equality included) takes exactly amount from
\* balance and from available_balance and returns True; otherwise it returns
\* False and leaves the account unchanged.
C8_DebitContract ==
    [][(nops' = nops + 1 /\ last'.op = "debit") =>
          LET a == last'.account
              amt == last'.amount
          IN IF acct[a].status = "active" /\ acct[a].available_balance >= amt
             THEN /\ last'.value = "True"
                  /\ acct'[a].balance = acct[a].balance - amt
                  /\ acct'[a].available_balance = acct[a].available_balance - amt
                  /\ acct'[a].status = acct[a].status
             ELSE /\ last'.value = "False"
                  /\ acct'[a] = acct[a]]_vars

\* Account.debit has just refused an amount above the available balance of an
\* active account.
C8_Witness ==
    /\ last.op = "debit"
    /\ last.value = "False"
    /\ acct[last.account].status = "active"
    /\ acct[last.account].available_balance < last.amount

\* C9: a process_transaction call on a pending transaction that meets no
\* persistence error and whose account can bear it (any credit; a debit with an
\* active account and available_balance >= amount + fee_amount) returns True,
\* persists status completed and processed_at, and changes balance and
\* available_balance of the transaction's account by exactly -(amount + fee_amount)
\* for a debit and +(amount - fee_amount) for a credit.
C9_SuccessEffect ==
    [][\A w \in Workers :
          LET c == call[w]
              a == c.obj.account
              tot == c.obj.amount + c.obj.fee_amount
              delta == IF c.obj.transaction_type = "debit" THEN 0 - tot
                       ELSE c.obj.amount - c.obj.fee_amount
          IN ( /\ c.kind = "call" /\ c.pc = "commit" /\ c.start_status = "pending"
               /\ call'[w].pc = "return"
               /\ \/ c.obj.transaction_type = "credit"
                  \/ acct[a].status = "active" /\ acct[a].available_balance >= tot
                  \/ c.rv = "True" )
             => /\ call'[w].rv = "True"
                /\ txn'[c.t].status = "completed"
                /\ txn'[c.t].processed_at = "now"
                /\ acct'[a].balance = acct[a].balance + delta
                /\ acct'[a].available_balance = acct[a].available_balance + delta]_vars

\* A pending debit with a fee has been processed successfully.
C9_Witness ==
    \E w \in Workers :
       /\ call[w].pc = "return" /\ call[w].kind = "call" /\ call[w].rv = "True"
       /\ call[w].start_status = "pending"
       /\ txn[call[w].t].transaction_type = "debit"
       /\ txn[call[w].t].fee_amount > 0
       /\ txn[call[w].t].status = "completed"

\* C10: a process_transaction call on a pending debit whose account cannot be
\* debited by amount + fee_amount (available_balance too low or account not
\* active), met by no persistence error, returns False, persists status failed
\* with failure_reason "Insufficient funds", writes a processing->failed log
\* entry and leaves every account unchanged.
C10_InsufficientFunds ==
    [][\A w \in Workers :
          LET c == call[w]
              a == c.obj.account
              tot == c.obj.amount + c.obj.fee_amount
          IN ( /\ c.kind = "call" /\ c.pc = "commit" /\ c.start_status = "pending"
               /\ call'[w].pc = "return"
               /\ c.obj.transaction_type = "debit"
               /\ ~ (acct[a].status = "active" /\ acct[a].available_balance >= tot) )
             => /\ call'[w].rv = "False"
                /\ txn'[c.t].status = "failed"
                /\ txn'[c.t].failure_reason = "Insufficient funds"
                /\ \E i \in (Len(logs[c.t]) + 1)..Len(logs'[c.t]) :
                      /\ logs'[c.t][i].previous_status = "processing"
                      /\ logs'[c.t][i].new_status = "failed"
                /\ acct' = acct]_vars

\* A pending debit on an account that is not active has been refused.
C10_Witness ==
    \E w \in Workers :
       /\ call[w].pc = "return" /\ call[w].kind = "call" /\ call[w].rv = "False"
       /\ call[w].start_status = "pending"
       /\ txn[call[w].t].status = "failed"
       /\ txn[call[w].t].failure_reason = "Insufficient funds"
       /\ acct[txn[call[w].t].account].status # "active"
       /\ acct[txn[call[w].t].account].available_balance >= Total(call[w].t)

\* C11: when a process_transaction invocation has returned, it returned True or
\* False (no fault reached the caller) and the persisted status of its
\* transaction is completed or failed; after an unexpected failure the status
\* is failed and the log holds an entry for the failure.
C11_AlwaysTerminal ==
    \A w \in Workers :
       (call[w].pc = "return" /\ call[w].kind = "call") =>
          /\ call[w].rv \in {"True", "False"}
          /\ txn[call[w].t].status \in {"completed", "failed"}
          /\ call[w].rv = "False" =>
                /\ txn[call[w].t].status = "failed"
                /\ \E i \in 1..Len(logs[call[w].t]) :
                      logs[call[w].t][i].new_status = "failed"

\* C12: processing attempts for one transaction do not interleave: the log of a
\* transaction shows at most one pending->processing transition written by
\* process_transaction, and at most one call that started from pending completes it.
C12_SingleAttempt ==
    \A t \in DOMAIN txn :
       /\ Cardinality({i \in 1..Len(logs[t]) :
                          /\ logs[t][i].message = "Transaction processing started"
                          /\ logs[t][i].previous_status = "pending"}) <= 1
       /\ Cardinality({w \in Workers :
                          /\ call[w].kind = "call" /\ call[w].t = t
                          /\ call[w].start_status = "pending"
                          /\ call[w].pc = "return" /\ call[w].rv = "True"}) <= 1

\* C13: Transaction.cancel on a transaction whose status is completed, failed or
\* cancelled returns False and changes neither the transaction nor its log; a
\* second cancel of a cancelled transaction is such a refused call.
C13_CancelRefused ==
    [][\A w \in Workers :
          ( /\ call[w].pc = "cancel" /\ call'[w].pc # "cancel"
            /\ call[w].obj.status \in {"completed", "failed", "cancelled"} )
          => /\ call'[w].pc = "return"
             /\ call'[w].rv = "False"
             /\ txn' = txn
             /\ logs' = logs]_vars

\* A cancelled transaction has been cancelled a second time and the call has
\* returned False.
C13_Witness ==
    \E w \in Workers :
       /\ call[w].pc = "return" /\ call[w].kind = "cancel" /\ call[w].rv = "False"
       /\ call[w].start_status = "cancelled"
       /\ txn[call[w].t].status = "cancelled"

\* C14: Transaction.cancel(reason) on a transaction whose status is pending or
\* processing returns True, stores status cancelled and failure_reason = reason,
\* and writes one log entry from the previous status to cancelled.
C14_CancelApplies ==
    [][/\ \A w \in Workers :
             ( /\ call[w].pc = "cancel" /\ call'[w].pc # "cancel"
               /\ call[w].obj.status \in {"pending", "processing"} )
             => LET t == call[w].t IN
                /\ call'[w].pc = "return"
                /\ call'[w].rv = "True"
                /\ txn'[t] = [txn[t] EXCEPT !.status = "cancelled",
                                            !.failure_reason = call[w].err]
                /\ logs'[t] = Append(logs[t], Log(txn[t].status, "cancelled",
                                                  "Status changed"))
       /\ \A t \in DOMAIN txn, st \in {"pending", "processing"}, reason \in CancelReasons :
             LET o == [txn[t] EXCEPT !.status = st]
                 res == cancel(o, reason)
             IN /\ res.ok = "True" /\ res.saved
                /\ res.obj = [o EXCEPT !.status = "cancelled", !.failure_reason = reason]
                /\ log_transaction_status_change(<<o>>, res.obj)
                      = <<Log(st, "cancelled", "Status changed")>>]_vars

\* A pending transaction has been cancelled with a reason.
C14_Witness ==
    \E w \in Workers :
       /\ call[w].pc = "return" /\ call[w].kind = "cancel" /\ call[w].rv = "True"
       /\ call[w].start_status = "pending"
       /\ txn[call[w].t].status = "cancelled"
       /\ txn[call[w].t].failure_reason \in CancelReasons

\* C15: can_execute is true exactly when status is active, next_execution_date
\* <= today, max_executions is unset or execution_count < max_executions
\* (max_executions = 0 included), and end_date is unset or today <= end_date.
C15_CanExecuteIff ==
    \A r \in DOMAIN rec :
       LET d == rec[r] IN
       can_execute(d, today) <=>
          /\ d.status = "active"
          /\ DateLE(d.next_execution_date, today)
          /\ d.max_executions = <<>> \/ d.execution_count < d.max_executions[1]
          /\ d.end_date = NoDate \/ DateLE(today, d.end_date)

\* The step by which execute_recurring_transaction, having got `value` from
\* process_transaction for its spawned transaction, finishes on worker w.
FinishesExecute(w, value) ==
    /\ call[w].pc = "rec_update"
    /\ call[w].rv = value
    /\ call'[w].pc # "rec_update"

\* C16: when the spawned transaction fails to process, the definition is left as
\* it was (execution_count, next_execution_date, status), False is returned, and
\* the definition is still selected by the scan and still executable.
C16_FailedExecutionKeepsDefinition ==
    [][\A w \in Workers :
          FinishesExecute(w, "False") =>
             LET r == call[w].r IN
             /\ rec' = rec
             /\ call'[w].rv = "False"
             /\ txn[call[w].t].status = "failed"
             /\ rec'[r].status = "active"
             /\ r \in due_transactions'
             /\ can_execute(rec'[r], today')]_vars

\* A definition whose first spawned transaction failed for insufficient funds
\* has been attempted again by a scan, and the second attempt failed as well.
C16_Witness ==
    \E w \in Workers :
       /\ call[w].kind = "scan" /\ call[w].pc = "scan_loop" /\ call[w].rv = "False"
       /\ call[w].t = 2
       /\ txn[1].status = "failed" /\ txn[1].failure_reason = "Insufficient funds"
       /\ txn[2].status = "failed"
       /\ rec[call[w].r].execution_count = 0

\* One period of each frequency from the last day of January 2024.
FromJanuary31(frequency) ==
    CASE frequency = "daily" -> <<2024, 2, 1>>
      [] frequency = "weekly" -> <<2024, 2, 7>>
      [] frequency = "monthly" -> <<2024, 2, 29>>
      [] frequency = "quarterly" -> <<2024, 4, 30>>
      [] frequency = "yearly" -> <<2025, 1, 31>>

\* The date one period of `frequency` after d.
OnePeriodLater(frequency, d) ==
    CASE frequency = "daily" -> timedelta_days(d, 1)
      [] frequency = "weekly" -> timedelta_days(d, 7)
      [] frequency = "monthly" -> relativedelta_months(d, 1)
      [] frequency = "quarterly" -> relativedelta_months(d, 3)
      [] frequency = "yearly" -> relativedelta_months(d, 12)

\* C17: a successful execute_recurring_transaction stores execution_count + 1 and
\* next_execution_date = the previous next_execution_date plus one period of the
\* frequency (not today plus one period), and returns True.
C17_SuccessAdvances ==
    [][\A w \in Workers :
          FinishesExecute(w, "True") =>
             LET r == call[w].r
                 old == rec[r]
             IN /\ call'[w].rv = "True"
                /\ rec'[r].execution_count = old.execution_count + 1
                /\ rec'[r].next_execution_date
                      = OnePeriodLater(old.frequency, old.next_execution_date)
                /\ old.next_execution_date = <<2024, 1, 31>>
                      => rec'[r].next_execution_date = FromJanuary31(old.frequency)
                /\ rec'[r].frequency = old.frequency
                /\ rec'[r].amount = old.amount
                /\ rec'[r].max_executions = old.max_executions
                /\ rec'[r].end_date = old.end_date]_vars

\* A monthly definition that was overdue since January 30 has been executed on
\* January 31 and is next due on the last day of February.
C17_Witness ==
    \E w \in Workers, r \in DOMAIN rec :
       /\ call[w].pc \in {"return", "scan_loop"} /\ call[w].r = r /\ call[w].rv = "True"
       /\ rec[r].frequency = "monthly"
       /\ rec[r].start_date = <<2024, 1, 30>>
       /\ rec[r].execution_count = 1
       /\ rec[r].next_execution_date = <<2024, 2, 29>>

\* C18: when a successful execution brings execution_count up to max_executions
\* the stored status becomes completed, and execute_recurring_transaction on a
\* completed definition returns False and spawns no transaction.
C18_CompletesAtMax ==
    [][\A w \in Workers :
          /\ FinishesExecute(w, "True") =>
                LET d == rec'[call[w].r] IN
                (d.max_executions # <<>> /\ d.execution_count = d.max_executions[1])
                   => d.status = "completed"
          /\ ( /\ call[w].pc = "idle" /\ call'[w].kind = "recurring"
               /\ rec[call'[w].r].status = "completed" )
             => /\ call'[w].pc = "return"
                /\ call'[w].rv = "False"
                /\ txn' = txn /\ logs' = logs /\ rec' = rec /\ acct' = acct]_vars

\* A definition with max_executions = 1 was executed once and a later
\* execute_recurring_transaction on it has returned False without a transaction.
C18_Witness ==
    \E w \in Workers, r \in DOMAIN rec :
       /\ call[w].pc = "return" /\ call[w].kind = "recurring" /\ call[w].r = r
       /\ call[w].rv = "False" /\ call[w].t = 0
       /\ rec[r].max_executions = <<1>> /\ rec[r].execution_count = 1
       /\ rec[r].status = "completed"
       /\ Len(txn) = 1 /\ txn[1].status = "completed"

\* C19: as long as only execute_recurring_transaction and
\* process_due_recurring_transactions act on it, a definition whose
\* max_executions is set (0 included) has execution_count <= max_executions.
C19_CountWithinMax ==
    \A r \in DOMAIN rec :
       (nops = 0 /\ rec[r].max_executions # <<>>)
          => rec[r].execution_count <= rec[r].max_executions[1]

\* C20: every step that changes a definition's next_execution_date sets it to a
\* strictly later date.
C20_NextDateForward ==
    [][\A r \in DOMAIN rec :
          rec'[r].next_execution_date # rec[r].next_execution_date
             => DateLT(rec[r].next_execution_date, rec'[r].next_execution_date)]_vars

\* C21: execute_recurring_transaction on a definition for which can_execute is
\* false creates no transaction and no log entry, leaves the definitions and the
\* accounts unchanged, and returns False.
C21_NotExecutableNoOp ==
    [][\A w \in Workers :
          LET direct == call[w].pc = "idle" /\ call'[w].kind = "recurring"
              scanned == /\ call[w].pc = "scan_loop" /\ Len(call[w].queue) > 0
                         /\ call'[w] # call[w]
              rt == IF direct THEN rec[call'[w].r] ELSE Head(call[w].queue).row
          IN ((direct \/ scanned) /\ ~ can_execute(rt, today))
             => /\ txn' = txn
                /\ logs' = logs
                /\ rec' = rec
                /\ acct' = acct
                /\ call'[w].rv = "False"
                /\ call'[w].pc = IF direct THEN "return" ELSE "scan_loop"]_vars

\* execute_recurring_transaction has returned False for an active definition
\* that is not yet due, and no transaction exists.
C21_Witness ==
    \E w \in Workers, r \in DOMAIN rec :
       /\ call[w].pc = "return" /\ call[w].kind = "recurring" /\ call[w].r = r
       /\ call[w].rv = "False" /\ call[w].t = 0
       /\ rec[r].status = "active"
       /\ DateLT(today, rec[r].next_execution_date)
       /\ Len(txn) = 0

\* The counts of a scan add up: every selected definition is either still
\* queued, being executed, or counted as processed or failed; a finished scan
\* returns its results.
ScanCounts ==
    \A w \in Workers :
       call[w].kind = "scan" =>
          LET c == call[w]
              running == IF c.pc \in {"scan_loop", "return"} THEN 0 ELSE 1
          IN /\ c.results.processed + c.results.failed + running + Len(c.queue)
                   = c.results.total
             /\ c.pc = "return" =>
                   /\ c.rv = "results"
                   /\ c.results.processed + c.results.failed = c.results.total

\* C22: process_due_recurring_transactions selects exactly the active
\* definitions with next_execution_date <= today, executes each of them once
\* whatever happens to the others (failure or persistence error), and returns
\* counts with processed + failed = total = the number selected.
C22_ScanCompletes ==
    [][/\ \A w \in Workers :
             (call[w].pc = "idle" /\ call'[w].kind = "scan")
                => /\ {call'[w].queue[i].id : i \in 1..Len(call'[w].queue)}
                         = due_transactions
                   /\ Len(call'[w].queue) = Cardinality(due_transactions)
                   /\ call'[w].results =
                         [processed |-> 0, failed |-> 0,
                          total |-> Cardinality(due_transactions)]
       /\ \A w \in Workers :
             (call[w].pc = "scan_loop" /\ Len(call[w].queue) > 0 /\ call'[w] # call[w])
                => /\ call'[w].r = Head(call[w].queue).id
                   /\ call'[w].queue = Tail(call[w].queue)
       /\ ScanCounts']_vars

\* A scan over two due definitions has returned: the first execution met a
\* persistence error and was counted as failed, the second one completed.
C22_Witness ==
    \E w \in Workers :
       /\ call[w].pc = "return" /\ call[w].kind = "scan"
       /\ call[w].results = [processed |-> 1, failed |-> 1, total |-> 2]
       /\ Len(txn) = 2
       /\ txn[1].status = "failed" /\ txn[1].failure_reason \in ErrTexts
       /\ txn[2].status = "completed"

\* The number of calendar months a frequency advances by.
MonthsOf(frequency) ==
    CASE frequency = "monthly" -> 1
      [] frequency = "quarterly" -> 3
      [] frequency = "yearly" -> 12
      [] OTHER -> 0

ValidDate(d) == d[2] \in 1..12 /\ d[3] \in 1..DaysInMonth(d[1], d[2])

\* C23: advancing by calendar months gives a valid date exactly 1, 3 or 12
\* months later, with the same day-of-month when the target month has it and the
\* last day of the target month otherwise (2024-01-31 monthly gives 2024-02-29,
\* 2023-01-31 gives 2023-02-28).
C23_MonthEnds ==
    [][\A r \in DOMAIN rec :
          LET d == rec[r].next_execution_date
              n == rec'[r].next_execution_date
              k == MonthsOf(rec[r].frequency)
          IN (r \in DOMAIN rec' /\ n # d /\ k > 0)
             => /\ ValidDate(n)
                /\ n[1] * 12 + n[2] = d[1] * 12 + d[2] + k
                /\ n[3] <= d[3]
                /\ n[3] < d[3] => n[3] = DaysInMonth(n[1], n[2])
                /\ (d = <<2024, 1, 31>> /\ k = 1) => n = <<2024, 2, 29>>
                /\ (d = <<2023, 1, 31>> /\ k = 1) => n = <<2023, 2, 28>>]_vars

\* A monthly definition dated 2024-01-31 has been advanced once, to 2024-02-29.
C23_Witness ==
    \E r \in DOMAIN rec :
       /\ rec[r].frequency = "monthly" /\ rec[r].start_date = <<2024, 1, 31>>
       /\ nops = 1
       /\ rec[r].next_execution_date = <<2024, 2, 29>>

\* C24: Account.credit adds exactly its amount to balance and to
\* available_balance whatever the account's status, and process_transaction of
\* a credit transaction always completes, returns True and adds the net amount.
C24_CreditAlwaysApplies ==
    [][/\ (nops' = nops + 1 /\ last'.op = "credit")
             => LET a == last'.account IN
                acct'[a] = [acct[a] EXCEPT !.balance = @ + last'.amount,
                                           !.available_balance = @ + last'.amount]
       /\ \A w \in Workers :
             (call[w].pc # "return" /\ call'[w].pc = "return" /\ call'[w].kind = "call"
                 /\ txn'[call'[w].t].transaction_type = "credit")
                => LET o == txn'[call'[w].t]
                       net == o.amount - o.fee_amount
                   IN /\ call'[w].rv = "True"
                      /\ o.status = "completed"
                      /\ acct'[o.account] =
                            [acct[o.account] EXCEPT !.balance = @ + net,
                                                    !.available_balance = @ + net]]_vars

\* A closed account was credited directly with 7 and holds 17 / 14, and a credit
\* transaction on a closed account completed.
C24_Witness ==
    /\ last.op = "credit" /\ last.amount = 7
    /\ acct[last.account].status = "closed"
    /\ \E t \in DOMAIN txn :
          /\ txn[t].transaction_type = "credit" /\ txn[t].status = "completed"
          /\ txn[t].account = last.account /\ txn[t].fee_amount = 1
          /\ ncalls = 1
          /\ acct[last.account].balance = opening[last.account].balance + 7 + 5
          /\ acct[last.account].available_balance
                = opening[last.account].available_balance + 7 + 5

\* max(1.00, amount x rate) with the rates written out: 1% transfer, 0.5%
\* payment, 2% withdrawal, 1% anything else (hundredths of the currency unit).
FeeByTable(amount, type) ==
    LET share == CASE type = "transfer" -> amount \div 100
                   [] type = "payment" -> amount \div 200
                   [] type = "withdrawal" -> amount \div 50
                   [] OTHER -> amount \div 100
    IN IF share > 100 THEN share ELSE 100

\* C25: calculate_transaction_fee is max(1.00, amount x rate), hence at least
\* 1.00, non-decreasing in the amount and the same for the same inputs; the
\* transaction spawned by execute_recurring_transaction is a debit carrying the
\* definition's category and the fee computed at the 'transfer' rate.
C25_FeeFormula ==
    [][/\ last'.op = "fee"
             => /\ last'.fee = FeeByTable(last'.amount, last'.type)
                /\ last'.fee >= 100
                /\ (last.op = "fee" /\ last.type = last'.type)
                      => /\ last.amount <= last'.amount => last.fee <= last'.fee
                         /\ last.amount = last'.amount => last.fee = last'.fee
       /\ \A w \in Workers :
             (call[w].pc = "idle" /\ call'[w].kind = "recurring" /\ Len(txn') = Len(txn) + 1)
                => LET o == txn'[Len(txn')]
                       rt == rec[call'[w].r]
                   IN /\ o.transaction_type = "debit"
                      /\ o.amount = rt.amount
                      /\ o.category = rt.category
                      /\ o.fee_amount = FeeByTable(o.amount, "transfer")]_vars

\* A payment of 200.00 was quoted at 1.00, and the transaction spawned by a
\* payment definition of 200.00 carries the transfer fee 2.00.
C25_Witness ==
    /\ last.op = "fee" /\ last.type = "payment" /\ last.amount = 20000 /\ last.fee = 100
    /\ \E t \in DOMAIN txn :
          /\ txn[t].category = "payment" /\ txn[t].amount = 20000
          /\ txn[t].transaction_type = "debit" /\ txn[t].fee_amount = 200

\* 'ACC' followed by 8 decimal digits.
WellFormedNumber(v) ==
    /\ Len(v) = 11
    /\ v[1] = "A" /\ v[2] = "C" /\ v[3] = "C"
    /\ \A i \in 4..11 : v[i] \in DecimalDigits

\* The request is invalid for one of the reasons the trigger lists: amount out
\* of range, malformed recipient number, account missing or not the caller's.
InvalidInput(account_id, amount, recipient) ==
    \/ amount <= 0
    \/ amount > 10000000
    \/ recipient # <<>> /\ ~ WellFormedNumber(recipient)
    \/ account_id \notin {a \in DOMAIN acct : user[a] = Caller}

\* The request does not pass the serializer: InvalidInput with str.isdigit's
\* digits, or the account cannot be debited by amount + transfer fee.
Rejected(account_id, amount, recipient) ==
    \/ amount <= 0
    \/ amount > 10000000
    \/ /\ recipient # <<>>
       /\ ~ (/\ Len(recipient) = 11
             /\ SubSeq(recipient, 1, 3) = <<"A", "C", "C">>
             /\ \A i \in 4..11 : recipient[i] \in DecimalDigits \cup OtherDigits)
    \/ account_id \notin {a \in DOMAIN acct : user[a] = Caller}
    \/ acct[account_id].status # "active"
    \/ acct[account_id].available_balance < amount + FeeByTable(amount, "transfer")

\* The trigger was refused before any mutation.
RefusedUntouched(w) ==
    /\ call'[w].pc = "return" /\ call'[w].rv = "validation error"
    /\ txn' = txn /\ logs' = logs /\ acct' = acct

\* The trigger created a pending Transaction and goes on to process it.
Created(w, account_id, amount, recipient) ==
    /\ Len(txn') = Len(txn) + 1
    /\ call'[w].t = Len(txn')
    /\ txn'[Len(txn')].status = "pending"
    /\ txn'[Len(txn')].account = account_id
    /\ txn'[Len(txn')].amount = amount
    /\ txn'[Len(txn')].recipient_account_number = recipient
    /\ acct' = acct

\* The trigger returns in worker w: with the persisted transaction in a final
\* status, or with the error of a persistence failure and nothing persisted.
TriggerReturns(w) ==
    (call[w].pc # "return" /\ call'[w].pc = "return" /\ call'[w].kind = "trigger"
        /\ call'[w].t > 0)
       => \/ /\ call'[w].rv \in {"True", "False"}
             /\ call'[w].t \in DOMAIN txn'
             /\ txn'[call'[w].t].status \in {"completed", "failed"}
             /\ call'[w].rv = "True" <=> txn'[call'[w].t].status = "completed"
          \/ /\ call'[w].rv = "raised"
             /\ txn'[call'[w].t] = NoObj /\ logs'[call'[w].t] = <<>>
             /\ acct' = acct

\* A step that starts the create-and-process trigger in worker w.
TriggerStarts(w) == call[w].pc = "idle" /\ call'[w].kind = "trigger"

C27_CancelVersusProcess ==
    ( /\ Quiescent
      /\ Len(txn) = 1
      /\ CountMsg(logs[1], "Transaction processing started") <= 1 )
    => /\ txn[1].status = "cancelled" => acct = opening
       /\ acct # opening => txn[1].status = "completed"

\* The transactions spawned for the definition that completed.
CompletedSpawned == {t \in DOMAIN txn : txn[t].status = "completed"}

\* C28: when executions or scans of one due definition overlap, the definition
\* is executed at most once for its due date, execution_count equals the number
\* of its completed transactions, and that number stays within max_executions.
C28_ExecutedOncePerDueDate ==
    (Quiescent /\ Len(rec) = 1)
    => /\ Cardinality(CompletedSpawned) <= 1
       /\ rec[1].execution_count = Cardinality(CompletedSpawned)
       /\ Len(rec[1].max_executions) = 1
             => Cardinality(CompletedSpawned) <= rec[1].max_executions[1]

\* C29: from an account with 0 <= available_balance <= balance, no sequential
\* run of process_transaction calls on transactions with amount > 0 and
\* fee_amount >= 0 makes balance or available_balance negative.
C29_NeverNegative ==
    \A a \in DOMAIN acct : acct[a].balance >= 0 /\ acct[a].available_balance >= 0

\* C30: process_transaction changes no account but the transaction's own: an
\* account changes only in the step that commits a transaction of that account,
\* so the account named by recipient_account_number keeps its balance and
\* available_balance.
C30_OwnAccountOnly ==
    [][\A a \in DOMAIN acct :
          acct'[a] # acct[a]
             => \E w \in Workers :
                   /\ call[w].pc = "commit"
                   /\ call[w].obj.account = a
                   /\ txn'[call[w].t].account = a
                   /\ \A b \in DOMAIN acct \ {a} : acct'[b] = acct[b]]_vars

\* A transfer requested through the view and a recurring payment, both naming
\* the second account as recipient, have completed: the first account paid
\* twice 7.00 and the second account holds what it held.
C30_Witness ==
    /\ Quiescent
    /\ Len(txn) = 2
    /\ \A t \in 1..2 : /\ txn[t].status = "completed" /\ txn[t].account = "A1"
                       /\ txn[t].recipient_account_number = account_numbers["A2"]
    /\ Len(rec) = 1 /\ rec[1].execution_count = 1
    /\ acct["A1"].balance = opening["A1"].balance - 1400
    /\ acct["A2"] = opening["A2"]

====
